---- MODULE Spec2Model ----
(***************************************************************************)
(* Model of the newsletter coordination workflow (src/src/workflow.py):    *)
(* run_coordination_workflow fans out two search branches under an overall *)
(* timeout, then runs the pydantic_graph nodes CheckBothCompleted ->       *)
(* GenerateNewsletterHeader -> GenerateNewsletterContent -> End.           *)
(*                                                                         *)
(* Time is not a variable: every agent call has a fixed latency, and the   *)
(* guards order the resolutions and the two timers by latency, as the      *)
(* asyncio event loop does.  An agent item is represented by its title.    *)
(***************************************************************************)
EXTENDS Naturals, Sequences, FiniteSets, TLC

\* ------------------------------------------------------------- bounds
MaxItems == 2          \* longest list a search agent returns
MaxEarly == 2          \* latencies 1..MaxEarly resolve before any timer
MaxBody == 5           \* longest subscribers.csv body, in characters
MaxRecords == 2        \* records of one storage event
MaxKey == 3            \* longest object key, in characters

\* ------------------------------------------------- program constants
OverallTimeout == 120  \* asyncio.wait_for(gather(...), timeout=120)
HeaderTimeout == 30    \* asyncio.wait_for(header_agent.run(...), timeout=30)

ArxivTitles == {"P1", "P2"}
AiTitles == {"A1", "A2"}

\* Sequences over S of length at most n
SeqsUpTo(S, n) == UNION {[1..k -> S] : k \in 0..n}

SearchLatencies == (1..MaxEarly) \cup {OverallTimeout, OverallTimeout + 1}
HeaderLatencies == {HeaderTimeout - 1, HeaderTimeout, HeaderTimeout + 1}

\* ---------------------------------------------------- exception classes
\* Python's hierarchy, as far as the handlers of workflow.py tell the
\* classes apart.  asyncio.CancelledError derives from BaseException only.
Bases(e) ==
  CASE e = "TimeoutError" -> {"TimeoutError", "Exception", "BaseException"}
    [] e = "UnboundLocalError" -> {"UnboundLocalError", "Exception", "BaseException"}
    [] e = "Exception" -> {"Exception", "BaseException"}
    [] e = "CancelledError" -> {"CancelledError", "BaseException"}
    [] OTHER -> {}

IsInstance(e, c) == c \in Bases(e)

\* What an agent's run() may raise: a timeout or a generic failure.
AgentRaises == {"TimeoutError", "Exception"}

\* ------------------------------------------------------------ headers
\* Optional[NewsletterHeader]: <<>> is None, <<h>> is a header object.
AgentHeaders == {[title |-> "Agents Gone Wild", headlines |-> "generated headlines"]}

ContentIssuesHeader ==
  [title |-> "AI Agent Newsletter: Content Search Issues",
   headlines |-> "We encountered some technical difficulties gathering content. Please check back later for the latest AI developments!"]

FallbackHeader ==
  [title |-> "AI Agent Newsletter: Latest Updates",
   headlines |-> "Discover the latest developments in AI agents and technologies"]

DefaultHeader ==
  [title |-> "AI Agent Newsletter",
   headlines |-> "Latest developments in AI and agent technologies"]

\* ------------------------------------------------------ agent behaviour
\* One call of agent.run(prompt): it returns `output` after `latency`,
\* raises `exc` after `latency`, or never returns.
Behaviours(outputs, latencies) ==
  {[kind |-> "return", exc |-> "none", latency |-> l, output |-> o] :
      l \in latencies, o \in outputs}
  \cup {[kind |-> "raise", exc |-> e, latency |-> l, output |-> <<>>] :
      e \in AgentRaises, l \in latencies}
  \cup {[kind |-> "hang", exc |-> "none", latency |-> 0, output |-> <<>>]}

ArxivBehaviours == Behaviours(SeqsUpTo(ArxivTitles, MaxItems), SearchLatencies)
AiBehaviours == Behaviours(SeqsUpTo(AiTitles, MaxItems), SearchLatencies)
HeaderBehaviours == Behaviours({<<h>> : h \in AgentHeaders}, HeaderLatencies)

VARIABLES
  arxiv_papers, ai_items, header, newsletter_content,
  arxiv_completed, ai_items_completed, arxiv_failed, ai_items_failed,
  arxiv_agent, ai_agent, header_agent,
  pc, arxiv_pc, ai_pc, results, next_node, result, calls, prompt,
  runs, save_pc, html_content, text_content, saved_files, storage,
  environ, command, faults, exit_status,
  lambda_env, subscribers_csv, rejects, invocations, ses_calls, s3_gets,
  approval_pc, approval_event, approval_i, approval_response,
  sender_pc, sender_event, newsletter_path, sender_html, subscribers, send_i,
  success_count, sender_response

state_vars == <<arxiv_papers, ai_items, header, newsletter_content,
                arxiv_completed, ai_items_completed, arxiv_failed, ai_items_failed>>
agent_vars == <<arxiv_agent, ai_agent, header_agent>>
render_vars == <<runs, save_pc, html_content, text_content, saved_files>>
main_vars == <<environ, command, faults, exit_status>>
approval_vars == <<approval_pc, approval_event, approval_i, approval_response>>
sender_vars == <<sender_pc, sender_event, newsletter_path, sender_html, subscribers, send_i,
                 success_count, sender_response>>
delivery_vars == <<lambda_env, subscribers_csv, rejects, invocations, ses_calls, s3_gets,
                   approval_vars, sender_vars>>
arxiv_vars == <<arxiv_papers, arxiv_completed, arxiv_failed>>
ai_vars == <<ai_items, ai_items_completed, ai_items_failed>>
flag_vars == <<arxiv_completed, ai_items_completed, arxiv_failed, ai_items_failed>>
vars == <<state_vars, agent_vars, render_vars, storage, delivery_vars, main_vars, pc, arxiv_pc, ai_pc, results, next_node, result,
          calls, prompt>>

NoResult == [kind |-> "unset", output |-> <<>>]
End(output) == [kind |-> "End", output |-> output]

\* NewsletterState(): the dataclass defaults
NewsletterState ==
  /\ arxiv_papers = <<>>
  /\ ai_items = <<>>
  /\ header = <<>>
  /\ newsletter_content = ""
  /\ arxiv_completed = FALSE
  /\ ai_items_completed = FALSE
  /\ arxiv_failed = FALSE
  /\ ai_items_failed = FALSE

\* A rendered document: its kind, the header lines and the three counts of
\* the summary block, and the titles of the listed items.  The text document
\* prints the title in upper case.  NoDoc is the absence of a document.
NoDoc ==
  [kind |-> "none", title |-> [text |-> "", upper |-> FALSE], headlines |-> "",
   papers |-> 0, updates |-> 0, total |-> 0, paper_titles |-> <<>>, item_titles |-> <<>>]

\* save_newsletter has not been called: nothing rendered, nothing stored
NothingSaved ==
  /\ runs = "local"
  /\ save_pc = "idle"
  /\ html_content = NoDoc
  /\ text_content = NoDoc
  /\ saved_files = <<>>
  /\ storage = {}

\* The settings main requires
required_vars == {"TAVILY_API_KEY", "GEMINI_API_KEY"}

\* a settings check that looks for the first setting only
MissingVars_TavilyOnly(env) == {"TAVILY_API_KEY"} \ env

\* missing_vars = [var for var in required_vars if not os.getenv(var)]
MissingVars(env) == required_vars \ env

\* main has passed its settings check, created ./data and built the agents
\* for a generation run; the process has not exited (exit_status is <<>>
\* while it runs and <<status>> once it has exited)
MainPassed ==
  /\ environ = required_vars
  /\ command = "generate"
  /\ faults = {}
  /\ exit_status = <<>>

\* The settings the two Lambda handlers read from os.environ
LambdaSettings ==
  {"NEWSLETTERS_BUCKET", "SUBSCRIBERS_BUCKET", "FROM_EMAIL", "ADMIN_EMAIL", "API_GATEWAY_URL"}

\* event.get('queryStringParameters', {}): absent or None (given = FALSE), or
\* a dict with the parameter names `names`; newsletter is the value of the
\* 'newsletter' parameter when there is one
NoQuery == [given |-> FALSE, names |-> {}, newsletter |-> <<>>]

\* What a handler returns before it has returned anything
NoResponse == [statusCode |-> 0, message |-> "", count |-> 0]

\* No handler of the delivery path has been invoked and no mail was sent
NoDelivery ==
  /\ lambda_env = LambdaSettings
  /\ subscribers_csv = <<>>
  /\ rejects = {}
  /\ invocations = [h \in {"approval", "sender"} |-> 0]
  /\ ses_calls = <<>>
  /\ s3_gets = <<>>
  /\ approval_pc = "idle"
  /\ approval_event = <<>>
  /\ approval_i = 0
  /\ approval_response = NoResponse
  /\ sender_pc = "idle"
  /\ sender_event = NoQuery
  /\ newsletter_path = <<>>
  /\ sender_html = <<>>
  /\ subscribers = <<>>
  /\ send_i = 0
  /\ success_count = 0
  /\ sender_response = NoResponse

\* run_coordination_workflow entered: fresh state, graph built, nothing awaited
Init ==
  /\ NewsletterState
  /\ NothingSaved
  /\ MainPassed
  /\ NoDelivery
  /\ arxiv_agent \in ArxivBehaviours
  /\ ai_agent \in AiBehaviours
  /\ header_agent \in HeaderBehaviours
  /\ pc = "init"
  /\ arxiv_pc = "idle"
  /\ ai_pc = "idle"
  /\ results = <<"none", "none">>
  /\ next_node = "none"
  /\ result = NoResult
  /\ calls = [a \in {"arxiv", "ai", "header"} |-> 0]
  /\ prompt = <<>>

\* ------------------------------------------------------------ fan-out
\* start_searches up to the await of wait_for(gather(...)): both branch
\* coroutines are scheduled.
StartSearches ==
  /\ pc = "init"
  /\ pc' = "gather"
  /\ arxiv_pc' = "ready"
  /\ ai_pc' = "ready"
  /\ UNCHANGED <<state_vars, agent_vars, render_vars, storage, delivery_vars, main_vars, results, next_node, result, calls, prompt>>

\* SearchArxivPapers.run up to its await: the agent is called.
\* gather starts its tasks in argument order, the arXiv branch first.
SearchArxivPapersCall ==
  /\ pc = "gather"
  /\ arxiv_pc = "ready"
  /\ arxiv_pc' = "awaiting"
  /\ calls' = [calls EXCEPT !["arxiv"] = @ + 1]
  /\ UNCHANGED <<state_vars, agent_vars, render_vars, storage, delivery_vars, main_vars, pc, ai_pc, results, next_node, result, prompt>>

SearchAiItemsCall ==
  /\ pc = "gather"
  /\ ai_pc = "ready"
  /\ arxiv_pc # "ready"
  /\ ai_pc' = "awaiting"
  /\ calls' = [calls EXCEPT !["ai"] = @ + 1]
  /\ UNCHANGED <<state_vars, agent_vars, render_vars, storage, delivery_vars, main_vars, pc, arxiv_pc, results, next_node, result, prompt>>

\* a branch with the except asyncio.TimeoutError handler only
SearchCatches_TimeoutOnly(e) == IsInstance(e, "TimeoutError")

\* The handlers of a search branch: except asyncio.TimeoutError, except Exception
SearchCatches(e) == IsInstance(e, "TimeoutError") \/ IsInstance(e, "Exception")

\* The fields of the NewsletterState object, as a record
StateRec ==
  [arxiv_papers |-> arxiv_papers, ai_items |-> ai_items, header |-> header,
   newsletter_content |-> newsletter_content,
   arxiv_completed |-> arxiv_completed, ai_items_completed |-> ai_items_completed,
   arxiv_failed |-> arxiv_failed, ai_items_failed |-> ai_items_failed]

\* ctx.state's fields after a step are those of the record t
SetState(t) ==
  /\ arxiv_papers' = t.arxiv_papers
  /\ ai_items' = t.ai_items
  /\ header' = t.header
  /\ newsletter_content' = t.newsletter_content
  /\ arxiv_completed' = t.arxiv_completed
  /\ ai_items_completed' = t.ai_items_completed
  /\ arxiv_failed' = t.arxiv_failed
  /\ ai_items_failed' = t.ai_items_failed

\* The overall timer of start_searches is armed while gather is awaited.
TimerPending == pc = "gather"

\* May the pending call `a` resolve now?  Not while a branch is still to be
\* started, not after the overall timer, and not before an earlier call.
Pending(bpc, a) == bpc = "awaiting" /\ a.kind # "hang"
ResolvesBefore(a, bpc, b) ==
  /\ a.kind # "hang"
  /\ TimerPending => a.latency <= OverallTimeout
  /\ bpc # "ready"
  /\ Pending(bpc, b) => a.latency <= b.latency

\* an arXiv branch that extends the other branch's list
SearchArxivPapersEffect_WrongList(s, a) ==
  IF a.kind = "return"
    THEN [s EXCEPT !.ai_items = @ \o a.output, !.arxiv_completed = TRUE]
  ELSE IF SearchCatches(a.exc)
    THEN [s EXCEPT !.arxiv_failed = TRUE, !.arxiv_completed = TRUE]
  ELSE s

\* SearchArxivPapers.run from the agent's answer on: the state it leaves,
\* given the state s it finds and the outcome a of its agent call.  An
\* exception no handler catches leaves run before the completion flag is set.
SearchArxivPapersEffect(s, a) ==
  IF a.kind = "return"
    THEN [s EXCEPT !.arxiv_papers = @ \o a.output, !.arxiv_completed = TRUE]
  ELSE IF SearchCatches(a.exc)
    THEN [s EXCEPT !.arxiv_failed = TRUE, !.arxiv_completed = TRUE]
  ELSE s

\* an AI-items branch whose handlers set the arXiv failure flag
SearchAiItemsEffect_WrongFlag(s, a) ==
  IF a.kind = "return"
    THEN [s EXCEPT !.ai_items = @ \o a.output, !.ai_items_completed = TRUE]
  ELSE IF SearchCatches(a.exc)
    THEN [s EXCEPT !.arxiv_failed = TRUE, !.ai_items_completed = TRUE]
  ELSE s

\* an AI-items branch that keeps the first item of the response only
SearchAiItemsEffect_FirstItemOnly(s, a) ==
  IF a.kind = "return"
    THEN [s EXCEPT !.ai_items = @ \o (IF a.output = <<>> THEN <<>> ELSE <<a.output[1]>>),
                   !.ai_items_completed = TRUE]
  ELSE IF SearchCatches(a.exc)
    THEN [s EXCEPT !.ai_items_failed = TRUE, !.ai_items_completed = TRUE]
  ELSE s

\* SearchAiItems.run from the agent's answer on, likewise
SearchAiItemsEffect(s, a) ==
  IF a.kind = "return"
    THEN [s EXCEPT !.ai_items = @ \o a.output, !.ai_items_completed = TRUE]
  ELSE IF SearchCatches(a.exc)
    THEN [s EXCEPT !.ai_items_failed = TRUE, !.ai_items_completed = TRUE]
  ELSE s

\* handlers that log, set the flags and re-raise
BranchResult_Reraises(a) ==
  IF a.kind = "return" THEN "CheckBothCompleted" ELSE a.exc

\* What a branch's task ends with: the node run returns, or the exception
\* that left it
BranchResult(a) ==
  IF a.kind = "return" \/ SearchCatches(a.exc) THEN "CheckBothCompleted" ELSE a.exc

\* SearchArxivPapers.run from the agent's answer to the return
SearchArxivPapersResume ==
  /\ arxiv_pc = "awaiting"
  /\ ResolvesBefore(arxiv_agent, ai_pc, ai_agent)
  /\ arxiv_pc' = "done"
  /\ SetState(SearchArxivPapersEffect(StateRec, arxiv_agent))
  /\ results' = [results EXCEPT ![1] = BranchResult(arxiv_agent)]
  /\ UNCHANGED <<agent_vars, render_vars, storage, delivery_vars, main_vars, pc, ai_pc, next_node, result, calls, prompt>>

\* SearchAiItems.run from the agent's answer to the return
SearchAiItemsResume ==
  /\ ai_pc = "awaiting"
  /\ ResolvesBefore(ai_agent, arxiv_pc, arxiv_agent)
  /\ ai_pc' = "done"
  /\ SetState(SearchAiItemsEffect(StateRec, ai_agent))
  /\ results' = [results EXCEPT ![2] = BranchResult(ai_agent)]
  /\ UNCHANGED <<agent_vars, render_vars, storage, delivery_vars, main_vars, pc, arxiv_pc, next_node, result, calls, prompt>>

\* gather(..., return_exceptions=True) is done: start_searches returns
\* results[0] if not isinstance(results[0], Exception) else results[1]
GatherResult(rs) == IF ~IsInstance(rs[1], "Exception") THEN rs[1] ELSE rs[2]

GatherDone ==
  /\ pc = "gather"
  /\ arxiv_pc = "done"
  /\ ai_pc = "done"
  /\ next_node' = GatherResult(results)
  /\ pc' = "dispatch"
  /\ UNCHANGED <<state_vars, agent_vars, render_vars, storage, delivery_vars, main_vars, arxiv_pc, ai_pc, results, result, calls, prompt>>

\* The overall timer fires: a branch is still awaiting its agent and no
\* pending call is due before the timer.
TimerDue(bpc, a) ==
  bpc = "awaiting" => (a.kind = "hang" \/ a.latency >= OverallTimeout)

\* the four flags of the state, as a record
Flags == [arxiv_completed |-> arxiv_completed, ai_items_completed |-> ai_items_completed,
          arxiv_failed |-> arxiv_failed, ai_items_failed |-> ai_items_failed]

\* a handler that marks the branches complete and leaves the failure flags
TimeoutHandler_FailedNotSet(f) ==
  [f EXCEPT !.arxiv_completed = TRUE, !.ai_items_completed = TRUE]

\* a handler that marks the arXiv branch only
TimeoutHandler_ArxivOnly(f) ==
  [f EXCEPT !.arxiv_completed = TRUE, !.arxiv_failed = TRUE]

\* The except asyncio.TimeoutError handler of start_searches: the flags it
\* leaves, given the flags f it finds
TimeoutHandler(f) ==
  [f EXCEPT !.arxiv_completed = TRUE, !.ai_items_completed = TRUE,
            !.arxiv_failed = TRUE, !.ai_items_failed = TRUE]

\* a timeout that leaves the pending branch running (asyncio.wait does)
CancelBranch_NotCancelled(bpc) == bpc

\* gather's cancellation reaches a branch at its await: CancelledError is
\* not an Exception, no handler of the branch catches it, and the branch ends
CancelBranch(bpc) ==
  IF bpc = "awaiting" /\ ~SearchCatches("CancelledError") THEN "cancelled" ELSE bpc

\* wait_for cancels gather, gather cancels the pending branches (their
\* handlers do not catch CancelledError), and the handler marks the state.
OverallTimeoutFires ==
  /\ pc = "gather"
  /\ "awaiting" \in {arxiv_pc, ai_pc}
  /\ "ready" \notin {arxiv_pc, ai_pc}
  /\ TimerDue(arxiv_pc, arxiv_agent)
  /\ TimerDue(ai_pc, ai_agent)
  /\ arxiv_pc' = CancelBranch(arxiv_pc)
  /\ ai_pc' = CancelBranch(ai_pc)
  /\ arxiv_completed' = TimeoutHandler(Flags).arxiv_completed
  /\ ai_items_completed' = TimeoutHandler(Flags).ai_items_completed
  /\ arxiv_failed' = TimeoutHandler(Flags).arxiv_failed
  /\ ai_items_failed' = TimeoutHandler(Flags).ai_items_failed
  /\ next_node' = "CheckBothCompleted"
  /\ pc' = "dispatch"
  /\ UNCHANGED <<arxiv_papers, ai_items, header, newsletter_content, agent_vars, render_vars, storage, delivery_vars, main_vars,
                 results, result, calls, prompt>>

\* run_coordination_workflow after start_searches: the graph is run from
\* next_node if it is a CheckBothCompleted, else the error End is returned.
Dispatch ==
  /\ pc = "dispatch"
  /\ IF next_node = "CheckBothCompleted"
       THEN /\ pc' = "CheckBothCompleted"
            /\ UNCHANGED result
       ELSE /\ result' = End(<<"Error in parallel execution">>)
            /\ pc' = "returned"
  /\ UNCHANGED <<state_vars, agent_vars, render_vars, storage, delivery_vars, main_vars, arxiv_pc, ai_pc, results, next_node,
                 calls, prompt>>

\* ---------------------------------------------------------- the graph
\* a check that is satisfied by either flag
CheckBothCompletedNext_Either(ac, aic) ==
  IF ac \/ aic THEN "GenerateNewsletterHeader" ELSE "WaitForCompletion"

\* a check with its condition inverted
CheckBothCompletedNext_Inverted(ac, aic) ==
  IF ~(ac /\ aic) THEN "GenerateNewsletterHeader" ELSE "WaitForCompletion"

\* CheckBothCompleted.run: the node it returns
CheckBothCompletedNext(ac, aic) ==
  IF ac /\ aic THEN "GenerateNewsletterHeader" ELSE "WaitForCompletion"

CheckBothCompletedRun ==
  /\ pc = "CheckBothCompleted"
  /\ pc' = CheckBothCompletedNext(arxiv_completed, ai_items_completed)
  /\ UNCHANGED <<state_vars, agent_vars, render_vars, storage, delivery_vars, main_vars, arxiv_pc, ai_pc, results, next_node,
                 result, calls, prompt>>

\* WaitForCompletion.run, after its sleep(0.1): the node it returns
WaitForCompletionNext(ac, aic) ==
  IF ac /\ aic THEN "GenerateNewsletterHeader" ELSE "WaitForCompletion"

WaitForCompletionRun ==
  /\ pc = "WaitForCompletion"
  /\ pc' = WaitForCompletionNext(arxiv_completed, ai_items_completed)
  /\ UNCHANGED <<state_vars, agent_vars, render_vars, storage, delivery_vars, main_vars, arxiv_pc, ai_pc, results, next_node,
                 result, calls, prompt>>

\* a prompt that carries a note only when both searches failed
FailureNote_BothOnly(af, aif) ==
  IF af /\ aif
    THEN <<"Note: Both content searches had technical issues, generating header for available content.">>
  ELSE <<>>

\* The prompt of GenerateNewsletterHeader.run, one element per line; an item
\* line is represented by the item's title.
FailureNote(af, aif) ==
  IF af /\ aif
    THEN <<"Note: Both content searches had technical issues, generating header for available content.">>
  ELSE IF af
    THEN <<"Note: ArXiv search had technical issues, focusing on AI items.">>
  ELSE IF aif
    THEN <<"Note: AI items search had technical issues, focusing on research papers.">>
  ELSE <<>>

HeaderPrompt(items, papers, af, aif) ==
  <<"Generate a catchy newsletter header">>
  \o (IF items # <<>> THEN <<"AI-Related Items (category, title):">> \o items ELSE <<>>)
  \o (IF papers # <<>> THEN <<"ArXiv Papers:">> \o papers ELSE <<>>)
  \o FailureNote(af, aif)

\* a header step without the no-content check: the agent is always called
GenerateNewsletterHeaderRun_AlwaysCalls ==
  /\ pc = "GenerateNewsletterHeader"
  /\ prompt' = HeaderPrompt(ai_items, arxiv_papers, arxiv_failed, ai_items_failed)
  /\ calls' = [calls EXCEPT !["header"] = @ + 1]
  /\ pc' = "header_await"
  /\ UNCHANGED <<state_vars, agent_vars, render_vars, storage, delivery_vars, main_vars, arxiv_pc, ai_pc, results, next_node, result>>

\* GenerateNewsletterHeader.run up to its await: with no content the fixed
\* header is set and the node returns; else the header agent is called
\* under wait_for(..., timeout=30).
GenerateNewsletterHeaderRun ==
  /\ pc = "GenerateNewsletterHeader"
  /\ IF ai_items = <<>> /\ arxiv_papers = <<>>
       THEN /\ header' = <<ContentIssuesHeader>>
            /\ pc' = "GenerateNewsletterContent"
            /\ UNCHANGED <<calls, prompt>>
       ELSE /\ prompt' = HeaderPrompt(ai_items, arxiv_papers, arxiv_failed, ai_items_failed)
            /\ calls' = [calls EXCEPT !["header"] = @ + 1]
            /\ pc' = "header_await"
            /\ UNCHANGED header
  /\ UNCHANGED <<arxiv_papers, ai_items, newsletter_content, flag_vars, agent_vars, render_vars, storage, delivery_vars, main_vars,
                 arxiv_pc, ai_pc, results, next_node, result>>

\* a header step with the except asyncio.TimeoutError handler only
HeaderCatches_TimeoutOnly(e) == IsInstance(e, "TimeoutError")

\* The handlers of the header step: except asyncio.TimeoutError, except Exception
HeaderCatches(e) == IsInstance(e, "TimeoutError") \/ IsInstance(e, "Exception")

\* handlers that log and assign no header
HeaderOnError_NotAssigned(e) == <<>>

\* a generic-failure handler that assigns the plain default header
HeaderOnError_DefaultOnFailure(e) ==
  IF IsInstance(e, "TimeoutError") THEN <<FallbackHeader>> ELSE <<DefaultHeader>>

\* The header the step's handlers store when the call ends with exception e:
\* both handlers assign the same fixed header
HeaderOnError(e) == <<FallbackHeader>>

\* The header agent answers within the timeout: its output is stored, or
\* its exception is handled; an exception no handler catches leaves the graph
\* run and run_coordination_workflow.
HeaderAgentResolves ==
  /\ pc = "header_await"
  /\ header_agent.kind # "hang"
  /\ header_agent.latency <= HeaderTimeout
  /\ IF header_agent.kind = "return"
       THEN /\ header' = header_agent.output
            /\ pc' = "GenerateNewsletterContent"
       ELSE IF HeaderCatches(header_agent.exc)
         THEN /\ header' = HeaderOnError(header_agent.exc)
              /\ pc' = "GenerateNewsletterContent"
         ELSE /\ pc' = "raised"
              /\ UNCHANGED header
  /\ UNCHANGED <<arxiv_papers, ai_items, newsletter_content, flag_vars, agent_vars, render_vars, storage, delivery_vars, main_vars,
                 arxiv_pc, ai_pc, results, next_node, result, calls, prompt>>

\* a header step that calls the agent again when the timer fires
HeaderTimeoutFires_Retry ==
  /\ pc = "header_await"
  /\ header_agent.kind = "hang" \/ header_agent.latency >= HeaderTimeout
  /\ calls' = [calls EXCEPT !["header"] = @ + 1]
  /\ UNCHANGED <<state_vars, agent_vars, render_vars, storage, delivery_vars, main_vars, pc, arxiv_pc, ai_pc, results, next_node,
                 result, prompt>>

\* a header step whose timeout handler also marks the searches failed
HeaderTimeoutFires_MarksFailed ==
  /\ pc = "header_await"
  /\ header_agent.kind = "hang" \/ header_agent.latency >= HeaderTimeout
  /\ header' = <<FallbackHeader>>
  /\ arxiv_failed' = TRUE
  /\ ai_items_failed' = TRUE
  /\ pc' = "GenerateNewsletterContent"
  /\ UNCHANGED <<arxiv_papers, ai_items, newsletter_content, arxiv_completed,
                 ai_items_completed, agent_vars, render_vars, storage, delivery_vars, main_vars, arxiv_pc, ai_pc, results, next_node,
                 result, calls, prompt>>

\* a header call awaited without wait_for: no timer ever fires
HeaderTimeoutFires_NoTimer ==
  /\ pc = "header_await"
  /\ FALSE
  /\ UNCHANGED vars

\* The header timer fires first: wait_for cancels the call and raises
\* asyncio.TimeoutError into the step.
HeaderTimeoutFires ==
  /\ pc = "header_await"
  /\ header_agent.kind = "hang" \/ header_agent.latency >= HeaderTimeout
  /\ IF HeaderCatches("TimeoutError")
       THEN /\ header' = HeaderOnError("TimeoutError")
            /\ pc' = "GenerateNewsletterContent"
       ELSE /\ pc' = "raised"
            /\ UNCHANGED header
  /\ UNCHANGED <<arxiv_papers, ai_items, newsletter_content, flag_vars, agent_vars, render_vars, storage, delivery_vars, main_vars,
                 arxiv_pc, ai_pc, results, next_node, result, calls, prompt>>

\* ----------------------------------------------------------- assembly
\* A local variable is <<>> while unbound and <<v>> once assigned.  In
\* GenerateNewsletterContent.run no assignment to `summary` precedes its
\* uses: `summary += ...` and `End(summary)` are its only occurrences.
SummaryLocal == <<>>

FailureNotes(af, aif) ==
  (IF af THEN <<"ArXiv search failed">> ELSE <<>>)
  \o (IF aif THEN <<"AI items search failed">> ELSE <<>>)

\* except Exception as e: return End(f"Error generating newsletter: {str(e)}")
ErrorOutput(e) == <<"Error generating newsletter: ", e>>

\* The try body of GenerateNewsletterContent.run from the failure notes on:
\* reading an unbound local raises UnboundLocalError, which the handler
\* turns into the error output.
ContentOutput(summary, af, aif) ==
  IF summary = <<>>
    THEN ErrorOutput("UnboundLocalError")
  ELSE IF af \/ aif
    THEN summary[1] \o <<" (Note: ">> \o FailureNotes(af, aif) \o <<")">>
  ELSE summary[1]

GenerateNewsletterContentRun ==
  /\ pc = "GenerateNewsletterContent"
  /\ header' = IF header = <<>> THEN <<DefaultHeader>> ELSE header
  /\ result' = End(ContentOutput(SummaryLocal, arxiv_failed, ai_items_failed))
  /\ pc' = "End"
  /\ UNCHANGED <<arxiv_papers, ai_items, newsletter_content, flag_vars, agent_vars, render_vars, storage, delivery_vars, main_vars,
                 arxiv_pc, ai_pc, results, next_node, calls, prompt>>

\* newsletter_graph.run returned: run_coordination_workflow logs and
\* returns (state, result)
WorkflowReturn ==
  /\ pc = "End"
  /\ pc' = "returned"
  /\ UNCHANGED <<state_vars, agent_vars, render_vars, storage, delivery_vars, main_vars, arxiv_pc, ai_pc, results, next_node,
                 result, calls, prompt>>

\* What the process leaves behind after asyncio.run(main(...)) returned a
\* (state, result) pair: the two pickled debugging files, as far as the
\* dump got (a failure is logged as a warning).
Pickled == [NoDoc EXCEPT !.kind = "pickle"]

StateFiles ==
  <<[place |-> "file", key |-> <<"data", "final_state.pkl">>, body |-> Pickled],
    [place |-> "file", key |-> <<"data", "graph_state.pkl">>, body |-> Pickled]>>

MainSaveState ==
  /\ pc = "returned"
  /\ pc' = "exit"
  /\ \E n \in 0..2 : storage' = storage \cup {StateFiles[i] : i \in 1..n}
  /\ exit_status' = <<0>>
  /\ UNCHANGED <<state_vars, agent_vars, render_vars, delivery_vars, environ, command,
                 faults, arxiv_pc, ai_pc, results, next_node, result, calls, prompt>>

Next ==
  \/ StartSearches
  \/ SearchArxivPapersCall
  \/ SearchAiItemsCall
  \/ SearchArxivPapersResume
  \/ SearchAiItemsResume
  \/ GatherDone
  \/ OverallTimeoutFires
  \/ Dispatch
  \/ CheckBothCompletedRun
  \/ GenerateNewsletterHeaderRun
  \/ HeaderAgentResolves
  \/ HeaderTimeoutFires
  \/ GenerateNewsletterContentRun
  \/ WorkflowReturn
  \/ MainSaveState

Spec == Init /\ [][Next]_vars

\* The event loop runs every ready step and every due timer.
LiveSpec == Init /\ [][Next]_vars /\ WF_vars(Next)

\* ------------------------------------------------- the graph on its own
\* The Graph of get_graph_state run from one of its polling nodes with a
\* state supplied by the caller, as newsletter_graph.run(node, state=state)
\* allows: any flags, any collections, no header yet.  The search agents
\* take no part in such a run.
Idle == [kind |-> "hang", exc |-> "none", latency |-> 0, output |-> <<>>]

GraphRunInit ==
  /\ arxiv_papers \in SeqsUpTo(ArxivTitles, MaxItems)
  /\ ai_items \in SeqsUpTo(AiTitles, MaxItems)
  /\ header = <<>>
  /\ newsletter_content = ""
  /\ arxiv_completed \in BOOLEAN
  /\ ai_items_completed \in BOOLEAN
  /\ arxiv_failed \in BOOLEAN
  /\ ai_items_failed \in BOOLEAN
  /\ arxiv_agent = Idle
  /\ ai_agent = Idle
  /\ header_agent \in HeaderBehaviours
  /\ pc \in {"CheckBothCompleted", "WaitForCompletion"}
  /\ arxiv_pc = "idle"
  /\ ai_pc = "idle"
  /\ results = <<"none", "none">>
  /\ next_node = pc
  /\ result = NoResult
  /\ calls = [a \in {"arxiv", "ai", "header"} |-> 0]
  /\ prompt = <<>>
  /\ NothingSaved
  /\ MainPassed
  /\ NoDelivery

GraphInit == Init \/ GraphRunInit

GraphNext == Next \/ WaitForCompletionRun

\* run_coordination_workflow together with the direct runs of the graph
GraphSpec == GraphInit /\ [][GraphNext]_vars

\* ------------------------------------------------------ the renderer
\* getattr(state.header, name, default): the attribute of the header, or the
\* default when state.header is None
HeaderTitle(h) == IF h = <<>> THEN "AI Agents Newsletter" ELSE h[1].title
HeaderHeadlines(h) ==
  IF h = <<>> THEN "Latest AI developments and insights" ELSE h[1].headlines

\* generate_html_newsletter(state)
GenerateHtmlNewsletter(s) ==
  [kind |-> "html",
   title |-> [text |-> HeaderTitle(s.header), upper |-> FALSE],
   headlines |-> HeaderHeadlines(s.header),
   papers |-> Len(s.arxiv_papers),
   updates |-> Len(s.ai_items),
   total |-> Len(s.arxiv_papers) + Len(s.ai_items),
   paper_titles |-> s.arxiv_papers,
   item_titles |-> s.ai_items]

\* a text summary whose total repeats the paper count
GenerateTextNewsletter_TotalIsPapers(s) ==
  [kind |-> "text",
   title |-> [text |-> HeaderTitle(s.header), upper |-> TRUE],
   headlines |-> HeaderHeadlines(s.header),
   papers |-> Len(s.arxiv_papers),
   updates |-> Len(s.ai_items),
   total |-> Len(s.arxiv_papers),
   paper_titles |-> s.arxiv_papers,
   item_titles |-> s.ai_items]

\* generate_text_newsletter(state)
GenerateTextNewsletter(s) ==
  [kind |-> "text",
   title |-> [text |-> HeaderTitle(s.header), upper |-> TRUE],
   headlines |-> HeaderHeadlines(s.header),
   papers |-> Len(s.arxiv_papers),
   updates |-> Len(s.ai_items),
   total |-> Len(s.arxiv_papers) + Len(s.ai_items),
   paper_titles |-> s.arxiv_papers,
   item_titles |-> s.ai_items]

\* The two Path objects save_newsletter builds and returns, as <<directory,
\* name>> with one timestamp TS in both names: bare names when
\* runs == "on_aws", under ./output otherwise
HtmlFile(r) ==
  <<IF r = "on_aws" THEN "" ELSE "output", "ai_newsletter_TS.html">>
TextFile(r) ==
  <<IF r = "on_aws" THEN "" ELSE "output", "ai_newsletter_TS.txt">>

\* The Key of the put_object call: f'newsletters/{html_file.name}'
HtmlObjectKey(html_file) == <<"newsletters", html_file[2]>>

workflow_vars == <<state_vars, agent_vars, pc, arxiv_pc, ai_pc, results, next_node,
                   result, calls, prompt>>

\* save_newsletter(state, runs) up to the first write: both documents are
\* generated from the state, in either run location
SaveGenerate ==
  /\ save_pc = "called"
  /\ html_content' = GenerateHtmlNewsletter(StateRec)
  /\ text_content' = GenerateTextNewsletter(StateRec)
  /\ save_pc' = "generated"
  /\ UNCHANGED <<workflow_vars, delivery_vars, main_vars, runs, saved_files, storage>>

\* runs == "on_aws": the one put_object call of save_newsletter, which
\* uploads the HTML document; a failed call raises out of save_newsletter
SavePutObject ==
  /\ save_pc = "generated"
  /\ runs = "on_aws"
  /\ \E ok \in BOOLEAN :
       IF ok
         THEN /\ storage' = storage \cup
                   {[place |-> "s3", key |-> HtmlObjectKey(HtmlFile(runs)), body |-> html_content]}
              /\ save_pc' = "stored"
         ELSE /\ save_pc' = "raised"
              /\ UNCHANGED storage
  /\ UNCHANGED <<workflow_vars, delivery_vars, main_vars, runs, html_content, text_content, saved_files>>

\* local run: the HTML file is written
SaveWriteHtml ==
  /\ save_pc = "generated"
  /\ runs # "on_aws"
  /\ \E ok \in BOOLEAN :
       IF ok
         THEN /\ storage' = storage \cup
                   {[place |-> "file", key |-> HtmlFile(runs), body |-> html_content]}
              /\ save_pc' = "html_written"
         ELSE /\ save_pc' = "raised"
              /\ UNCHANGED storage
  /\ UNCHANGED <<workflow_vars, delivery_vars, main_vars, runs, html_content, text_content, saved_files>>

\* local run: the text file is written
SaveWriteText ==
  /\ save_pc = "html_written"
  /\ \E ok \in BOOLEAN :
       IF ok
         THEN /\ storage' = storage \cup
                   {[place |-> "file", key |-> TextFile(runs), body |-> text_content]}
              /\ save_pc' = "stored"
         ELSE /\ save_pc' = "raised"
              /\ UNCHANGED storage
  /\ UNCHANGED <<workflow_vars, delivery_vars, main_vars, runs, html_content, text_content, saved_files>>

\* save_newsletter logs and returns (html_file, text_file)
SaveReturn ==
  /\ save_pc = "stored"
  /\ saved_files' = <<HtmlFile(runs), TextFile(runs)>>
  /\ save_pc' = "returned"
  /\ UNCHANGED <<workflow_vars, delivery_vars, main_vars, runs, html_content, text_content, storage>>

\* The headers a state may carry: None, an agent's header, a fixed header
StateHeaders ==
  {<<>>} \cup {<<h>> : h \in AgentHeaders \cup {ContentIssuesHeader, FallbackHeader, DefaultHeader}}

\* save_newsletter(state, runs) called on a state a finished run can leave,
\* for either run location; no workflow is running.
RenderInit ==
  /\ arxiv_papers \in SeqsUpTo(ArxivTitles, MaxItems)
  /\ ai_items \in SeqsUpTo(AiTitles, MaxItems)
  /\ header \in StateHeaders
  /\ newsletter_content = ""
  /\ arxiv_completed = TRUE
  /\ ai_items_completed = TRUE
  /\ arxiv_failed \in BOOLEAN
  /\ ai_items_failed \in BOOLEAN
  /\ arxiv_agent = Idle
  /\ ai_agent = Idle
  /\ header_agent = Idle
  /\ pc = "exit"
  /\ arxiv_pc = "idle"
  /\ ai_pc = "idle"
  /\ results = <<"none", "none">>
  /\ next_node = "none"
  /\ result = NoResult
  /\ calls = [a \in {"arxiv", "ai", "header"} |-> 0]
  /\ prompt = <<>>
  /\ runs \in {"on_aws", "local"}
  /\ save_pc = "called"
  /\ html_content = NoDoc
  /\ text_content = NoDoc
  /\ saved_files = <<>>
  /\ storage = {}
  /\ MainPassed
  /\ NoDelivery

RenderNext ==
  \/ SaveGenerate
  \/ SavePutObject
  \/ SaveWriteHtml
  \/ SaveWriteText
  \/ SaveReturn

RenderSpec == RenderInit /\ [][RenderNext]_vars

\* ------------------------------------------------------------ main
\* What may fail while main prepares a run: data_dir.mkdir(...) and
\* get_agents(model), which builds the three agents for the model named on
\* the command line
MainFaults == {"mkdir", "get_agents"}

\* python main.py [test|mermaid] is started: nothing has run yet
MainInit ==
  /\ NewsletterState
  /\ NothingSaved
  /\ NoDelivery
  /\ environ \in SUBSET required_vars
  /\ command \in {"generate", "test", "mermaid"}
  /\ faults \in SUBSET MainFaults
  /\ exit_status = <<>>
  /\ arxiv_agent = Idle
  /\ ai_agent = Idle
  /\ header_agent = Idle
  /\ pc = "main"
  /\ arxiv_pc = "idle"
  /\ ai_pc = "idle"
  /\ results = <<"none", "none">>
  /\ next_node = "none"
  /\ result = NoResult
  /\ calls = [a \in {"arxiv", "ai", "header"} |-> 0]
  /\ prompt = <<>>

\* main up to its settings check: with a required setting missing it logs
\* and calls sys.exit(1)
MainCheckEnvironment ==
  /\ pc = "main"
  /\ IF MissingVars(environ) # {}
       THEN /\ exit_status' = <<1>>
            /\ pc' = "exit"
       ELSE /\ pc' = "setup"
            /\ UNCHANGED exit_status
  /\ UNCHANGED <<state_vars, agent_vars, render_vars, storage, delivery_vars, environ, command,
                 faults, arxiv_pc, ai_pc, results, next_node, result, calls, prompt>>

\* main from the data directory to the call of the selected mode: mkdir,
\* then get_agents(model) in every mode.  An exception of either leaves main
\* and asyncio.run, and __main__ logs it and calls sys.exit(1).
MainSetup ==
  /\ pc = "setup"
  /\ IF faults # {}
       THEN /\ exit_status' = <<1>>
            /\ pc' = "exit"
            /\ UNCHANGED agent_vars
       ELSE /\ arxiv_agent' \in ArxivBehaviours
            /\ ai_agent' \in AiBehaviours
            /\ header_agent' \in HeaderBehaviours
            /\ pc' = CASE command = "generate" -> "init"
                        [] command = "test" -> "test_agents"
                        [] OTHER -> "mermaid"
            /\ UNCHANGED exit_status
  /\ UNCHANGED <<state_vars, render_vars, storage, delivery_vars, environ, command, faults,
                 arxiv_pc, ai_pc, results, next_node, result, calls, prompt>>

\* test_agents: each agent is called once under wait_for(..., timeout=30),
\* every outcome is logged; main returns None and the process ends normally
MainTestAgents ==
  /\ pc = "test_agents"
  /\ calls' = [a \in {"arxiv", "ai", "header"} |-> calls[a] + 1]
  /\ exit_status' = <<0>>
  /\ pc' = "exit"
  /\ UNCHANGED <<state_vars, agent_vars, render_vars, storage, delivery_vars, environ, command,
                 faults, arxiv_pc, ai_pc, results, next_node, result, prompt>>

\* display_mermaid_diagram: the diagram is logged, no agent is called
MainMermaid ==
  /\ pc = "mermaid"
  /\ exit_status' = <<0>>
  /\ pc' = "exit"
  /\ UNCHANGED <<state_vars, agent_vars, render_vars, storage, delivery_vars, environ, command,
                 faults, arxiv_pc, ai_pc, results, next_node, result, calls, prompt>>

MainNext ==
  \/ MainCheckEnvironment
  \/ MainSetup
  \/ MainTestAgents
  \/ MainMermaid
  \/ Next

\* The process from its start, in any mode
MainSpec == MainInit /\ [][MainNext]_vars

\* ------------------------------------------------ the subscriber list
\* A str is the sequence of its characters.  The characters a subscribers.csv
\* body is made of here: letters, "@", the column and row separators, blank.
Chars == {"a", "b", "@", ",", " ", "\n"}

IsSpace(c) == c \in {" ", "\n"}

RECURSIVE LStrip(_)
LStrip(str) ==
  IF str = <<>> THEN <<>>
  ELSE IF IsSpace(Head(str)) THEN LStrip(Tail(str))
  ELSE str

RECURSIVE RStrip(_)
RStrip(str) ==
  IF str = <<>> THEN <<>>
  ELSE IF IsSpace(str[Len(str)]) THEN RStrip(SubSeq(str, 1, Len(str) - 1))
  ELSE str

\* str.strip()
Strip(str) == RStrip(LStrip(str))

\* str.split(sep): the pieces between the separators, empty pieces kept
RECURSIVE Split(_, _)
Split(str, sep) ==
  IF str = <<>> THEN << <<>> >>
  ELSE IF Head(str) = sep THEN << <<>> >> \o Split(Tail(str), sep)
  ELSE LET rest == Split(Tail(str), sep)
       IN  << <<Head(str)>> \o rest[1] >> \o Tail(rest)

\* str.splitlines(): split at line ends, with no empty last line
SplitLines(str) ==
  LET pieces == Split(str, "\n")
  IN  IF pieces[Len(pieces)] = <<>> THEN SubSeq(pieces, 1, Len(pieces) - 1) ELSE pieces

Has(str, c) == \E i \in 1..Len(str) : str[i] = c

\* a filter that keeps every row with a non-empty first column
Accepts_AnyNonEmpty(email) == email # <<>>

\* if email and '@' in email
Accepts(email) == email # <<>> /\ Has(email, "@")

\* parts = [col.strip() for col in line.split(',')]
Parts(line) ==
  LET cols == Split(line, ",") IN [i \in 1..Len(cols) |-> Strip(cols[i])]

\* The email and name get_subscribers reads from one line
LineEmail(line) == Parts(line)[1]
LineName(line) ==
  LET parts == Parts(line)
  IN  IF Len(parts) > 1 /\ parts[2] # <<>> THEN parts[2] ELSE Split(parts[1], "@")[1]

\* The loop of get_subscribers over the lines
RECURSIVE SubscribersOf(_)
SubscribersOf(lines) ==
  IF lines = <<>> THEN <<>>
  ELSE (IF Accepts(LineEmail(Head(lines)))
          THEN <<[email |-> LineEmail(Head(lines)), name |-> LineName(Head(lines))]>>
          ELSE <<>>)
       \o SubscribersOf(Tail(lines))

\* get_subscribers(), given the body of subscribers.csv
GetSubscribers(body) == SubscribersOf(SplitLines(Strip(body)))

\* No coordination workflow is running in this process
NoWorkflow ==
  /\ NewsletterState
  /\ arxiv_agent = Idle
  /\ ai_agent = Idle
  /\ header_agent = Idle
  /\ pc = "none"
  /\ arxiv_pc = "idle"
  /\ ai_pc = "idle"
  /\ results = <<"none", "none">>
  /\ next_node = "none"
  /\ result = NoResult
  /\ calls = [a \in {"arxiv", "ai", "header"} |-> 0]
  /\ prompt = <<>>

\* get_subscribers() is called on a subscribers.csv of any content
SubscribersInit ==
  /\ NoWorkflow
  /\ NothingSaved
  /\ MainPassed
  /\ lambda_env = LambdaSettings
  /\ subscribers_csv \in SeqsUpTo(Chars, MaxBody)
  /\ rejects = {}
  /\ invocations = [h \in {"approval", "sender"} |-> 0]
  /\ ses_calls = <<>>
  /\ s3_gets = <<>>
  /\ approval_pc = "idle"
  /\ approval_event = <<>>
  /\ approval_i = 0
  /\ approval_response = NoResponse
  /\ sender_pc = "get_subscribers"
  /\ sender_event = NoQuery
  /\ newsletter_path = <<>>
  /\ sender_html = <<>>
  /\ subscribers = <<>>
  /\ send_i = 0
  /\ success_count = 0
  /\ sender_response = NoResponse

\* create_response(message), with the number the message reports
CreateResponse(message, count) == [statusCode |-> 200, message |-> message, count |-> count]

\* except Exception as e: return create_response(f"Error: {str(e)}")
ErrorResponse(e) == CreateResponse("Error: " \o e, 0)

\* get_subscribers() reads the file and returns the parsed list; a missing
\* SUBSCRIBERS_BUCKET setting raises KeyError, which lambda_handler catches
GetSubscribersRun ==
  /\ sender_pc = "get_subscribers"
  /\ IF "SUBSCRIBERS_BUCKET" \in lambda_env
       THEN /\ s3_gets' = Append(s3_gets, [by |-> "sender", key |-> <<"", "subscribers.csv">>])
            /\ subscribers' = GetSubscribers(subscribers_csv)
            /\ sender_pc' = "parsed"
            /\ UNCHANGED sender_response
       ELSE /\ sender_response' = ErrorResponse("'SUBSCRIBERS_BUCKET'")
            /\ sender_pc' = "returned"
            /\ UNCHANGED <<s3_gets, subscribers>>
  /\ UNCHANGED <<workflow_vars, render_vars, storage, main_vars, lambda_env, subscribers_csv,
                 rejects, invocations, ses_calls, approval_vars, sender_event,
                 newsletter_path, sender_html, send_i, success_count>>

SubscribersSpec == SubscribersInit /\ [][GetSubscribersRun]_vars

\* ------------------------------------------------ urllib.parse on keys
\* The printable ASCII characters; Ascii[i] has code 31 + i (the grave
\* accent, which a string cannot hold, is written "U+0060")
Ascii ==
  <<
    " ", "!", "\"", "#", "$", "%", "&", "'", "(", ")", "*", "+",
    ",", "-", ".", "/", "0", "1", "2", "3", "4", "5", "6", "7",
    "8", "9", ":", ";", "<", "=", ">", "?", "@", "A", "B", "C",
    "D", "E", "F", "G", "H", "I", "J", "K", "L", "M", "N", "O",
    "P", "Q", "R", "S", "T", "U", "V", "W", "X", "Y", "Z", "[",
    "\\", "]", "^", "_", "U+0060", "a", "b", "c", "d", "e", "f", "g",
    "h", "i", "j", "k", "l", "m", "n", "o", "p", "q", "r", "s",
    "t", "u", "v", "w", "x", "y", "z", "{", "|", "}", "~"
  >>

Ord(c) == 31 + (CHOOSE i \in 1..Len(Ascii) : Ascii[i] = c)

\* The character of one decoded byte.  Bytes outside the printable range
\* (control characters, and bytes that are not UTF-8 on their own, which
\* decode(errors='replace') turns into U+FFFD) are one token; keys are
\* ASCII, so no escape sequence spans several bytes.
Chr(n) == IF n \in 32..126 THEN Ascii[n - 31] ELSE "U+FFFD"

HexDigits == <<"0", "1", "2", "3", "4", "5", "6", "7", "8", "9", "A", "B", "C", "D", "E", "F">>

LowerHex == <<"a", "b", "c", "d", "e", "f">>

IsHex(c) ==
  \/ \E i \in 1..Len(HexDigits) : HexDigits[i] = c
  \/ \E i \in 1..Len(LowerHex) : LowerHex[i] = c

HexValue(c) ==
  IF \E i \in 1..Len(LowerHex) : LowerHex[i] = c
    THEN 9 + (CHOOSE i \in 1..Len(LowerHex) : LowerHex[i] = c)
    ELSE (CHOOSE i \in 1..Len(HexDigits) : HexDigits[i] = c) - 1

\* _ALWAYS_SAFE: letters, digits and "_.-~"
AlwaysSafe ==
  {Ascii[i] : i \in (Ord("A") - 31)..(Ord("Z") - 31)}
  \cup {Ascii[i] : i \in (Ord("a") - 31)..(Ord("z") - 31)}
  \cup {Ascii[i] : i \in (Ord("0") - 31)..(Ord("9") - 31)}
  \cup {"_", ".", "-", "~"}

\* "%XX", XX the code of c in upper-case hexadecimal
PercentEncoded(c) == <<"%", HexDigits[(Ord(c) \div 16) + 1], HexDigits[(Ord(c) % 16) + 1]>>

\* a quote that leaves "%" as it is
QuoteChar_PercentSafe(c, safe) ==
  IF c \in AlwaysSafe \cup safe \cup {"%"} THEN <<c>> ELSE PercentEncoded(c)

\* quote: a character that is not safe is percent-encoded
QuoteChar(c, safe) ==
  IF c \in AlwaysSafe \cup safe THEN <<c>> ELSE PercentEncoded(c)

RECURSIVE QuoteWith(_, _)
QuoteWith(s, safe) ==
  IF s = <<>> THEN <<>> ELSE QuoteChar(Head(s), safe) \o QuoteWith(Tail(s), safe)

\* urllib.parse.quote(string): safe='/'
Quote(s) == QuoteWith(s, {"/"})

\* urllib.parse.unquote(string): every "%" followed by two hexadecimal
\* digits is replaced by the character of that byte; any other "%" stays
RECURSIVE Unquote(_)
Unquote(s) ==
  IF s = <<>> THEN <<>>
  ELSE IF s[1] = "%" /\ Len(s) >= 3 /\ IsHex(s[2]) /\ IsHex(s[3])
    THEN <<Chr(16 * HexValue(s[2]) + HexValue(s[3]))>> \o Unquote(SubSeq(s, 4, Len(s)))
  ELSE <<s[1]>> \o Unquote(Tail(s))

\* urllib.parse.unquote_plus(string): "+" is a space, then unquote
UnquotePlus(s) == Unquote([i \in DOMAIN s |-> IF s[i] = "+" THEN " " ELSE s[i]])

\* -------------------------------------------------- the delivery path
\* Object keys are sequences of characters.  Two keys of newsletter
\* objects, "n/k" standing for f'newsletters/{html_file.name}' and one with
\* a character that quote escapes
ObjectKeys == {<<"n", "/", "k">>, <<"n", "/", "+">>}

\* A key under which the bucket holds nothing
DeletedKey == <<"n", "/", "x">>

\* Characters of keys: the separator, and the characters the URL
\* conversions treat specially ("%", two digits that form escapes, "+")
KeyChars == {"/", "%", "2", "5", "+"}

\* Every key of at most MaxKey characters
AllKeys == SeqsUpTo(KeyChars, MaxKey) \ {<<>>}

RECURSIVE Text(_)
Text(s) == IF s = <<>> THEN "" ELSE Head(s) \o Text(Tail(s))

\* The object stored under key k
HtmlObject(k) ==
  [place |-> "s3", key |-> k, body |-> [NoDoc EXCEPT !.kind = "html", !.headlines = Text(k)]]

\* The keys a request may name: those of the stored objects and one of no
\* object
KnownKeys == {f.key : f \in storage} \cup {DeletedKey}

\* record['s3']['object']['key']: the storage event carries the key
\* URL-encoded, a space as "+"
RECURSIVE EventKey(_)
EventKey(k) ==
  IF k = <<>> THEN <<>>
  ELSE (IF Head(k) = " " THEN <<"+">>
        ELSE IF Head(k) \in AlwaysSafe \cup {"/"} THEN <<Head(k)>>
        ELSE PercentEncoded(Head(k))) \o EventKey(Tail(k))

\* s3_client.get_object(Bucket=..., Key=k): the objects found
GetObject(k) == {f \in storage : f.place = "s3" /\ f.key = k}

AdminEmail == <<"o", "@", "x">>

\* Three subscribers.csv bodies: no rows; a valid row with a name; a valid
\* row, a row with no "@" and a valid row without name
CsvBodies ==
  {<<>>,
   <<"a", "@", "x", ",", "a">>,
   <<"a", "@", "x", "\n", "b", "\n", "b", "@", "x">>}

\* One ses_client.send_email call, as it was made, and whether the mail
\* service accepted it
SendEmail(by, to, key, html) ==
  [by |-> by, to |-> to, newsletter |-> key, html |-> html, link |-> <<>>,
   ok |-> to \notin rejects]

\* The approval Lambda is triggered by a storage event with some records.
\* A handler keeps nothing from one invocation to the next, so one
\* invocation of each handler is followed.
ApprovalInvoke ==
  /\ approval_pc = "idle"
  /\ invocations["approval"] = 0
  /\ invocations' = [invocations EXCEPT !["approval"] = @ + 1]
  /\ \E n \in 1..MaxRecords : approval_event' \in [1..n -> {EventKey(k) : k \in KnownKeys}]
  /\ approval_i' = 1
  /\ approval_response' = NoResponse
  /\ approval_pc' = "record"
  /\ UNCHANGED <<workflow_vars, render_vars, storage, main_vars, lambda_env, subscribers_csv,
                 rejects, ses_calls, s3_gets, sender_vars>>

\* an approval mail addressed to the subscribers' first address
ApprovalRecipient_Subscriber == <<"a", "@", "x">>

\* Destination={'ToAddresses': [admin_email]}
ApprovalRecipient == AdminEmail

\* the two return statements with their status codes exchanged
ApprovalStatus_Exchanged(failed) == IF failed THEN 200 ELSE 500

\* return {'statusCode': 200, ...} after the loop;
\* except Exception as e: return {'statusCode': 500, ...}
ApprovalStatus(failed) == IF failed THEN 500 ELSE 200

\* approval_link: the 'newsletter' parameter of
\* f"{api_gateway_url}/approve?newsletter={urllib.parse.quote(object_key)}"
ApprovalLink(object_key) == [path |-> "/approve", newsletter |-> Quote(object_key)]

\* One pass of the loop over event['Records']: the object is fetched and
\* send_approval_email mails it with the approval link; any exception ends
\* the handler with status 500.  After the last record the status is 200.
ApprovalRecord ==
  /\ approval_pc = "record"
  /\ LET key == UnquotePlus(approval_event[approval_i])
         call == [SendEmail("approval", ApprovalRecipient, key, (CHOOSE f \in GetObject(key) : TRUE).body)
                    EXCEPT !.link = <<ApprovalLink(key)>>]
         last == approval_i = Len(approval_event)
     IN  /\ s3_gets' = Append(s3_gets, [by |-> "approval", key |-> key])
         /\ IF GetObject(key) = {}
              THEN /\ approval_response' = [statusCode |-> ApprovalStatus(TRUE), message |-> "Error: NoSuchKey", count |-> 0]
                   /\ approval_pc' = "returned"
                   /\ UNCHANGED <<ses_calls, approval_i>>
            ELSE IF ~({"ADMIN_EMAIL", "API_GATEWAY_URL", "FROM_EMAIL"} \subseteq lambda_env)
              THEN /\ approval_response' = [statusCode |-> ApprovalStatus(TRUE), message |-> "Error: KeyError", count |-> 0]
                   /\ approval_pc' = "returned"
                   /\ UNCHANGED <<ses_calls, approval_i>>
            ELSE /\ ses_calls' = Append(ses_calls, call)
                 /\ IF ~call.ok
                      THEN /\ approval_response' = [statusCode |-> ApprovalStatus(TRUE), message |-> "Error: MessageRejected", count |-> 0]
                           /\ approval_pc' = "returned"
                           /\ UNCHANGED approval_i
                    ELSE IF last
                      THEN /\ approval_response' = [statusCode |-> ApprovalStatus(FALSE), message |-> "Approval email sent successfully", count |-> 0]
                           /\ approval_pc' = "returned"
                           /\ UNCHANGED approval_i
                    ELSE /\ approval_i' = approval_i + 1
                         /\ UNCHANGED <<approval_pc, approval_response>>
  /\ UNCHANGED <<workflow_vars, render_vars, storage, main_vars, lambda_env, subscribers_csv,
                 rejects, invocations, approval_event, sender_vars>>

\* The 'newsletter' parameters of the approval links mailed so far
MailedLinks ==
  {ses_calls[j].link[1].newsletter : j \in {i \in 1..Len(ses_calls) : ses_calls[i].link # <<>>}}

\* The requests the sender Lambda may receive: no query parameters (absent,
\* None or empty), other parameters only, or a 'newsletter' parameter: that
\* of a mailed approval link, or the quoted key of a known key
SenderEvents ==
  {NoQuery,
   [given |-> TRUE, names |-> {}, newsletter |-> <<>>],
   [given |-> TRUE, names |-> {"other"}, newsletter |-> <<>>]}
  \cup {[given |-> TRUE, names |-> {"newsletter"}, newsletter |-> p] :
          p \in MailedLinks \cup {Quote(k) : k \in KnownKeys}}

\* a test of the parameter's name that lets an empty or absent dict through
MissingNewsletter_OtherNamesOnly(q) == q.names # {} /\ "newsletter" \notin q.names

\* if not query_params or 'newsletter' not in query_params
MissingNewsletter(q) == (~q.given \/ q.names = {}) \/ "newsletter" \notin q.names

\* The sender Lambda is invoked: lambda_handler up to its first storage call
SenderInvoke ==
  /\ sender_pc = "idle"
  /\ invocations["sender"] = 0
  /\ invocations' = [invocations EXCEPT !["sender"] = @ + 1]
  /\ \E q \in SenderEvents :
       /\ sender_event' = q
       /\ IF MissingNewsletter(q)
            THEN /\ sender_response' = CreateResponse("Error: Missing newsletter parameter", 0)
                 /\ sender_pc' = "returned"
                 /\ newsletter_path' = <<>>
          ELSE IF "newsletter" \notin q.names
            THEN /\ sender_response' = ErrorResponse("'newsletter'")
                 /\ sender_pc' = "returned"
                 /\ newsletter_path' = <<>>
          ELSE /\ sender_response' = NoResponse
               /\ sender_pc' = "fetch"
               /\ newsletter_path' = Unquote(q.newsletter)
  /\ sender_html' = <<>>
  /\ subscribers' = <<>>
  /\ send_i' = 0
  /\ success_count' = 0
  /\ UNCHANGED <<workflow_vars, render_vars, storage, main_vars, lambda_env, subscribers_csv,
                 rejects, ses_calls, s3_gets, approval_vars>>

\* The document is fetched from NEWSLETTERS_BUCKET under newsletter_path
SenderFetch ==
  /\ sender_pc = "fetch"
  /\ IF "NEWSLETTERS_BUCKET" \notin lambda_env
       THEN /\ sender_response' = ErrorResponse("'NEWSLETTERS_BUCKET'")
            /\ sender_pc' = "returned"
            /\ UNCHANGED <<s3_gets, sender_html>>
     ELSE /\ s3_gets' = Append(s3_gets, [by |-> "sender", key |-> newsletter_path])
          /\ IF GetObject(newsletter_path) = {}
               THEN /\ sender_response' = ErrorResponse("NoSuchKey")
                    /\ sender_pc' = "returned"
                    /\ UNCHANGED sender_html
             ELSE /\ sender_html' = <<(CHOOSE f \in GetObject(newsletter_path) : TRUE).body>>
                  /\ sender_pc' = "get_subscribers"
                  /\ UNCHANGED sender_response
  /\ UNCHANGED <<workflow_vars, render_vars, storage, main_vars, lambda_env, subscribers_csv,
                 rejects, invocations, ses_calls, approval_vars, sender_event,
                 newsletter_path, subscribers, send_i, success_count>>

\* lambda_handler after get_subscribers(): with no subscribers it returns;
\* else send_to_subscribers starts (FROM_EMAIL is read, the count is 0)
SenderStartSending ==
  /\ sender_pc = "parsed"
  /\ IF subscribers = <<>>
       THEN /\ sender_response' = CreateResponse("No subscribers found", 0)
            /\ sender_pc' = "returned"
            /\ UNCHANGED send_i
     ELSE IF "FROM_EMAIL" \notin lambda_env
       THEN /\ sender_response' = ErrorResponse("'FROM_EMAIL'")
            /\ sender_pc' = "returned"
            /\ UNCHANGED send_i
     ELSE /\ send_i' = 1
          /\ sender_pc' = "sending"
          /\ UNCHANGED sender_response
  /\ UNCHANGED <<workflow_vars, render_vars, storage, main_vars, lambda_env, subscribers_csv,
                 rejects, invocations, ses_calls, s3_gets, approval_vars, sender_event,
                 newsletter_path, sender_html, subscribers, success_count>>

\* datetime.now() in sender_lambda.py, where `datetime` is the module
\* (import datetime): the module has no attribute now
DatetimeNow == [kind |-> "raise", exc |-> "AttributeError"]

\* One pass of the loops of send_to_subscribers (batches of 10, in list
\* order): the try body personalises the document, takes the timestamp and
\* calls send_email; except Exception logs the failure and the loop goes on.
SendOne ==
  /\ sender_pc = "sending"
  /\ send_i <= Len(subscribers)
  /\ LET call == SendEmail("sender", subscribers[send_i].email, newsletter_path, sender_html[1])
     IN  IF DatetimeNow.kind = "raise"
           THEN UNCHANGED <<ses_calls, success_count>>
           ELSE /\ ses_calls' = Append(ses_calls, call)
                /\ success_count' = IF call.ok THEN success_count + 1 ELSE success_count
  /\ send_i' = send_i + 1
  /\ UNCHANGED <<workflow_vars, render_vars, storage, main_vars, lambda_env, subscribers_csv,
                 rejects, invocations, s3_gets, approval_vars, sender_pc, sender_event,
                 newsletter_path, sender_html, subscribers, sender_response>>

\* send_to_subscribers returns success_count and lambda_handler reports it
SenderReturn ==
  /\ sender_pc = "sending"
  /\ send_i > Len(subscribers)
  /\ sender_response' = CreateResponse("Newsletter sent successfully", success_count)
  /\ sender_pc' = "returned"
  /\ UNCHANGED <<workflow_vars, render_vars, storage, main_vars, lambda_env, subscribers_csv,
                 rejects, invocations, ses_calls, s3_gets, approval_vars, sender_event,
                 newsletter_path, sender_html, subscribers, send_i, success_count>>

\* The two handlers deployed: some newsletters are in the bucket, the
\* subscriber file has some content, the mail service rejects some
\* addresses, and at most one setting is missing.
DeliveryInit ==
  /\ NoWorkflow
  /\ MainPassed
  /\ runs = "on_aws"
  /\ save_pc = "idle"
  /\ html_content = NoDoc
  /\ text_content = NoDoc
  /\ saved_files = <<>>
  /\ storage \in SUBSET {HtmlObject(k) : k \in ObjectKeys}
  /\ lambda_env \in {LambdaSettings} \cup {LambdaSettings \ {x} : x \in LambdaSettings}
  /\ subscribers_csv \in CsvBodies
  /\ rejects \in {{}, {AdminEmail}, {<<"a", "@", "x">>}}
  /\ invocations = [h \in {"approval", "sender"} |-> 0]
  /\ ses_calls = <<>>
  /\ s3_gets = <<>>
  /\ approval_pc = "idle"
  /\ approval_event = <<>>
  /\ approval_i = 0
  /\ approval_response = NoResponse
  /\ sender_pc = "idle"
  /\ sender_event = NoQuery
  /\ newsletter_path = <<>>
  /\ sender_html = <<>>
  /\ subscribers = <<>>
  /\ send_i = 0
  /\ success_count = 0
  /\ sender_response = NoResponse

DeliveryNext ==
  \/ ApprovalInvoke
  \/ ApprovalRecord
  \/ SenderInvoke
  \/ SenderFetch
  \/ GetSubscribersRun
  \/ SenderStartSending
  \/ SendOne
  \/ SenderReturn

DeliverySpec == DeliveryInit /\ [][DeliveryNext]_vars

\* The two handlers deployed with every setting present, over a bucket that
\* holds one newsletter under any key of AllKeys
LinkInit ==
  /\ NoWorkflow
  /\ MainPassed
  /\ runs = "on_aws"
  /\ save_pc = "idle"
  /\ html_content = NoDoc
  /\ text_content = NoDoc
  /\ saved_files = <<>>
  /\ storage \in {{HtmlObject(k)} : k \in AllKeys}
  /\ lambda_env = LambdaSettings
  /\ subscribers_csv = <<"a", "@", "x", ",", "a">>
  /\ rejects = {}
  /\ invocations = [h \in {"approval", "sender"} |-> 0]
  /\ ses_calls = <<>>
  /\ s3_gets = <<>>
  /\ approval_pc = "idle"
  /\ approval_event = <<>>
  /\ approval_i = 0
  /\ approval_response = NoResponse
  /\ sender_pc = "idle"
  /\ sender_event = NoQuery
  /\ newsletter_path = <<>>
  /\ sender_html = <<>>
  /\ subscribers = <<>>
  /\ send_i = 0
  /\ success_count = 0
  /\ sender_response = NoResponse

LinkSpec == LinkInit /\ [][DeliveryNext]_vars

\* ------------------------------------------------------------- claims
BothCompleted == arxiv_completed /\ ai_items_completed

\* the overall timeout fired: it cancelled a branch that was still awaiting
OverallTimedOut == "cancelled" \in {arxiv_pc, ai_pc}

\* start_searches has returned
SearchesReturned == pc \notin {"init", "gather"}

Contains(output, part) == \E i \in 1..Len(output) : output[i] = part

\* C1: once start_searches has returned (both branches returned, a branch
\* raised, or the overall timeout fired) both completion flags are true,
\* and they are true in every later state of the run.
C1_CompletedAfterSearches == SearchesReturned => BothCompleted

C1_Witness ==
  /\ pc = "returned"
  /\ arxiv_pc = "cancelled"
  /\ ai_pc = "done"
  /\ ai_agent.kind = "raise"

\* C2: whenever the header step or the assembly step has started, both
\* completion flags are true, whatever the failure flags; CheckBothCompleted
\* and WaitForCompletion go to GenerateNewsletterHeader exactly when both
\* completion flags are true and to WaitForCompletion otherwise, and nothing
\* else enters GenerateNewsletterHeader.
AssemblyStarted ==
  pc \in {"GenerateNewsletterHeader", "header_await", "GenerateNewsletterContent", "End"}

PollingStep ==
  pc \in {"CheckBothCompleted", "WaitForCompletion"} =>
    pc' = (IF BothCompleted THEN "GenerateNewsletterHeader" ELSE "WaitForCompletion")

HeaderEntered ==
  pc' = "GenerateNewsletterHeader" =>
    (pc \in {"CheckBothCompleted", "WaitForCompletion"} /\ BothCompleted)

C2_AssemblyOnlyWhenCompleted ==
  /\ [](AssemblyStarted => BothCompleted)
  /\ [][PollingStep]_vars
  /\ [][HeaderEntered]_vars

C2_Witness ==
  /\ pc = "GenerateNewsletterHeader"
  /\ next_node = "WaitForCompletion"
  /\ BothCompleted
  /\ arxiv_failed
  /\ ~ai_items_failed

\* C3: when a branch's agent call raised and the overall timeout did not
\* fire, that branch is failed and completed with an empty collection, and
\* the other branch's failure flag and collection are those of its own
\* agent's outcome.
OwnFailed(a) == a.kind = "raise"
OwnItems(a) == IF a.kind = "return" THEN a.output ELSE <<>>

C3_BranchFailureIsolated ==
  (arxiv_pc = "done" /\ ai_pc = "done") =>
    /\ arxiv_agent.kind = "raise" =>
         /\ arxiv_failed /\ arxiv_completed /\ arxiv_papers = <<>>
         /\ ai_items_failed = OwnFailed(ai_agent)
         /\ ai_items = OwnItems(ai_agent)
    /\ ai_agent.kind = "raise" =>
         /\ ai_items_failed /\ ai_items_completed /\ ai_items = <<>>
         /\ arxiv_failed = OwnFailed(arxiv_agent)
         /\ arxiv_papers = OwnItems(arxiv_agent)

C3_Witness ==
  /\ pc = "returned"
  /\ arxiv_pc = "done" /\ ai_pc = "done"
  /\ arxiv_agent.kind = "raise" /\ arxiv_agent.exc = "Exception"
  /\ ai_agent.kind = "return" /\ Len(ai_items) = MaxItems
  /\ ~ai_items_failed

\* C4: when the overall timeout fires before both branches have finished,
\* all four flags are true and start_searches returns a CheckBothCompleted
\* node, and the run goes on to header generation and to assembly.
\* start_searches has just returned from its timeout handler
TimeoutReturned == OverallTimedOut /\ pc = "dispatch"

C4_TimeoutProceeds ==
  /\ [](OverallTimedOut =>
          /\ arxiv_completed /\ ai_items_completed
          /\ arxiv_failed /\ ai_items_failed
          /\ next_node = "CheckBothCompleted"
          /\ result.output # <<"Error in parallel execution">>)
  /\ (TimeoutReturned ~> pc = "GenerateNewsletterHeader")
  /\ (TimeoutReturned ~> pc = "GenerateNewsletterContent")
  /\ (TimeoutReturned ~> pc = "returned")

C4_Witness ==
  /\ pc = "GenerateNewsletterContent"
  /\ arxiv_pc = "done" /\ arxiv_agent.kind = "return"
  /\ ai_pc = "cancelled"
  /\ arxiv_failed

\* C5: every run reaches End and returns, whatever the three agents do
\* (return, raise or never return), the timers firing when due.
C5_Terminates == <>(pc = "returned")

C5_Witness ==
  /\ pc = "returned"
  /\ arxiv_agent.kind = "hang"
  /\ ai_agent.kind = "return"
  /\ header_agent.kind = "hang"
  /\ calls["header"] = 1

\* C6: no failure of a search agent or of the header agent lets an
\* exception leave run_coordination_workflow, and what it returns is a
\* (state, result) pair with an End result.
C6_NoExceptionEscapes ==
  /\ pc # "raised"
  /\ pc = "returned" => result.kind = "End"

C6_Witness ==
  /\ pc = "returned"
  /\ arxiv_agent.kind = "raise"
  /\ ai_agent.kind = "return"
  /\ arxiv_pc = "done" /\ ai_pc = "done"
  /\ calls["header"] = 1
  /\ header_agent.kind = "raise" /\ header_agent.exc = "Exception"
  /\ header_agent.latency < HeaderTimeout

\* C7: once the header step has returned the header is not None, and it is
\* not None in the state run_coordination_workflow returns after a graph run.
HeaderStepReturned == pc \in {"GenerateNewsletterContent", "End"}
GraphWasRun == pc = "returned" /\ next_node = "CheckBothCompleted"

C7_HeaderNeverNone == (HeaderStepReturned \/ GraphWasRun) => header # <<>>

C7_Witness ==
  /\ pc = "GenerateNewsletterContent"
  /\ calls["header"] = 1
  /\ header_agent.kind = "hang"
  /\ arxiv_failed /\ ai_items_failed

\* C8: when the header call raises or does not finish within the header
\* timeout, the step stores the fixed fallback header and goes on to
\* GenerateNewsletterContent, as it does after a successful call.
HeaderCallFails ==
  header_agent.kind # "return" \/ header_agent.latency > HeaderTimeout

FailedHeaderStep ==
  (pc = "header_await" /\ HeaderCallFails) =>
    /\ header' = <<FallbackHeader>>
    /\ header'[1].title = "AI Agent Newsletter: Latest Updates"
    /\ pc' = "GenerateNewsletterContent"

AnyHeaderStep == pc = "header_await" => pc' = "GenerateNewsletterContent"

C8_HeaderFallback == [][FailedHeaderStep]_vars /\ [][AnyHeaderStep]_vars

C8_Witness ==
  /\ pc = "GenerateNewsletterContent"
  /\ calls["header"] = 1
  /\ header_agent.kind = "return"
  /\ header_agent.latency > HeaderTimeout
  /\ header = <<FallbackHeader>>

\* C9: with a failure flag true at assembly, the output of the assembly
\* step names each failed branch and no branch that did not fail.
Assembled == pc \in {"End", "returned"} /\ result.kind = "End"

C9_FailureNotesInOutput ==
  (Assembled /\ (arxiv_failed \/ ai_items_failed)) =>
    /\ arxiv_failed <=> Contains(result.output, "ArXiv search failed")
    /\ ai_items_failed <=> Contains(result.output, "AI items search failed")

\* C10: when both searches and the header call succeed, the output returned
\* with the state is a summary, not the "Error generating newsletter" text.
AllSucceeded ==
  /\ arxiv_pc = "done" /\ ai_pc = "done"
  /\ ~arxiv_failed /\ ~ai_items_failed
  /\ calls["header"] = 1
  /\ header = header_agent.output

C10_SummaryNotError ==
  (pc = "returned" /\ AllSucceeded) =>
    /\ result.kind = "End"
    /\ ~Contains(result.output, "Error generating newsletter: ")

\* C11: a branch whose agent call never returns is ended by a timeout of
\* its own before the overall timeout: it alone is failed and completed, and
\* a branch whose agent returned normally keeps its failure flag false.
ReturnedEarly(a) == a.kind = "return" /\ a.latency < OverallTimeout

C11_BranchTimeoutIsolated ==
  SearchesReturned =>
    /\ (arxiv_agent.kind = "hang" /\ ReturnedEarly(ai_agent)) =>
         (arxiv_failed /\ arxiv_completed /\ ~ai_items_failed /\ ~OverallTimedOut)
    /\ (ai_agent.kind = "hang" /\ ReturnedEarly(arxiv_agent)) =>
         (ai_items_failed /\ ai_items_completed /\ ~arxiv_failed /\ ~OverallTimedOut)

\* C12: with no overall timeout, whatever the order in which the branches
\* resume, the collections and the four flags are those of running
\* SearchArxivPapers and SearchAiItems one after the other, in either order.
InitialState ==
  [arxiv_papers |-> <<>>, ai_items |-> <<>>, header |-> <<>>,
   newsletter_content |-> "",
   arxiv_completed |-> FALSE, ai_items_completed |-> FALSE,
   arxiv_failed |-> FALSE, ai_items_failed |-> FALSE]

SearchFields(s) ==
  <<s.arxiv_papers, s.ai_items, s.arxiv_completed, s.ai_items_completed,
    s.arxiv_failed, s.ai_items_failed>>

ArxivThenAi ==
  SearchAiItemsEffect(SearchArxivPapersEffect(InitialState, arxiv_agent), ai_agent)

AiThenArxiv ==
  SearchArxivPapersEffect(SearchAiItemsEffect(InitialState, ai_agent), arxiv_agent)

BothBranchesDone == arxiv_pc = "done" /\ ai_pc = "done"

C12_InterleavingsAgree ==
  BothBranchesDone =>
    /\ SearchFields(StateRec) = SearchFields(ArxivThenAi)
    /\ SearchFields(StateRec) = SearchFields(AiThenArxiv)

C12_Witness ==
  /\ pc = "dispatch"
  /\ BothBranchesDone
  /\ ai_agent.latency < arxiv_agent.latency
  /\ Len(arxiv_papers) = MaxItems
  /\ Len(ai_items) = MaxItems

\* C13: the steps of SearchArxivPapers.run leave the AI-items branch's three
\* fields, the header and newsletter_content unchanged, and the steps of
\* SearchAiItems.run leave the arXiv branch's three fields, the header and
\* newsletter_content unchanged.
ArxivBranchStep == arxiv_pc' # arxiv_pc /\ arxiv_pc' \in {"awaiting", "done"}
AiBranchStep == ai_pc' # ai_pc /\ ai_pc' \in {"awaiting", "done"}

ArxivBranchFrame ==
  ArxivBranchStep => UNCHANGED <<ai_vars, header, newsletter_content>>

AiBranchFrame ==
  AiBranchStep => UNCHANGED <<arxiv_vars, header, newsletter_content>>

C13_BranchesWriteOwnFields == [][ArxivBranchFrame]_vars /\ [][AiBranchFrame]_vars

C13_Witness ==
  /\ arxiv_pc = "awaiting"
  /\ ai_pc = "done"
  /\ ai_agent.kind = "raise"
  /\ ai_items_failed /\ ai_items_completed
  /\ ~arxiv_failed /\ ~arxiv_completed

\* C14: once the overall timeout has fired, a branch that had not finished
\* is cancelled and appends nothing for the rest of the run, also when its
\* agent call would have returned a result later.
UnfinishedAtTimeout(i) == SearchesReturned /\ results[i] = "none"

ArxivDiscarded == UnfinishedAtTimeout(1) => UNCHANGED arxiv_papers
AiDiscarded == UnfinishedAtTimeout(2) => UNCHANGED ai_items

C14_CancelledWorkDiscarded ==
  /\ [](UnfinishedAtTimeout(1) => (arxiv_pc = "cancelled" /\ arxiv_papers = <<>>))
  /\ [](UnfinishedAtTimeout(2) => (ai_pc = "cancelled" /\ ai_items = <<>>))
  /\ [][ArxivDiscarded]_vars
  /\ [][AiDiscarded]_vars

C14_Witness ==
  /\ pc = "returned"
  /\ arxiv_pc = "cancelled"
  /\ arxiv_agent.kind = "return"
  /\ Len(arxiv_agent.output) = MaxItems
  /\ arxiv_papers = <<>>
  /\ ai_pc = "done"
  /\ ai_items # <<>>

\* C15: no agent is called more than once in a run, also after it failed
\* or timed out.
C15_NoRetry == \A a \in {"arxiv", "ai", "header"} : calls[a] <= 1

C15_Witness ==
  /\ pc = "returned"
  /\ calls = [a \in {"arxiv", "ai", "header"} |-> 1]
  /\ arxiv_agent.kind = "raise"
  /\ header_agent.kind = "hang"

\* C16: the header step, on every path, leaves the collections, the four
\* flags and newsletter_content unchanged and ends no branch; header is the
\* only state field it writes.
HeaderStepFrame ==
  pc \in {"GenerateNewsletterHeader", "header_await"} =>
    UNCHANGED <<arxiv_papers, ai_items, flag_vars, newsletter_content, arxiv_pc, ai_pc>>

C16_HeaderStepWritesHeaderOnly == [][HeaderStepFrame]_vars

C16_Witness ==
  /\ pc = "GenerateNewsletterContent"
  /\ calls["header"] = 1
  /\ header_agent.kind = "hang"
  /\ header = <<FallbackHeader>>
  /\ ~arxiv_failed /\ ~ai_items_failed
  /\ arxiv_papers # <<>>

\* C17: when the overall timeout fires before either branch has completed,
\* all four flags are true and both collections are empty, the header agent
\* is never called, the header is the fixed no-content header, and the run
\* reaches its return.
NeitherCompleted == arxiv_pc = "cancelled" /\ ai_pc = "cancelled"

FixedHeaders == {ContentIssuesHeader, FallbackHeader, DefaultHeader}

C17_TimeoutBeforeAnyBranch ==
  /\ [](NeitherCompleted =>
          /\ arxiv_completed /\ ai_items_completed
          /\ arxiv_failed /\ ai_items_failed
          /\ arxiv_papers = <<>> /\ ai_items = <<>>
          /\ calls["header"] = 0
          /\ pc # "header_await")
  /\ []((NeitherCompleted /\ pc \in {"GenerateNewsletterContent", "End", "returned"}) =>
          (header = <<ContentIssuesHeader>> /\ header[1] \in FixedHeaders))
  /\ ((NeitherCompleted /\ pc = "dispatch") ~> pc = "returned")

C17_Witness ==
  /\ pc = "returned"
  /\ NeitherCompleted
  /\ arxiv_agent.kind = "return" /\ arxiv_agent.output # <<>>
  /\ ai_agent.kind = "hang"
  /\ header = <<ContentIssuesHeader>>

\* C18: in a full generation run the finished state is handed to the
\* renderer after assembly, so that when the run ends save_newsletter has
\* returned and an HTML and a text document are stored.
Stored(kind) == \E f \in storage : f.body.kind = kind

C18_RenderedAtEnd ==
  pc = "exit" => (save_pc = "returned" /\ Stored("html") /\ Stored("text"))

\* C19: in both documents the total-items count is the sum of the lengths
\* of the two collections of the state rendered, and the paper and AI-update
\* counts are the two lengths.
CountsAgree(doc) ==
  /\ doc.papers = Len(arxiv_papers)
  /\ doc.updates = Len(ai_items)
  /\ doc.total = Len(arxiv_papers) + Len(ai_items)

C19_CountsMatchCollections ==
  save_pc \in {"generated", "html_written", "stored", "returned"} =>
    /\ html_content.kind = "html" /\ CountsAgree(html_content)
    /\ text_content.kind = "text" /\ CountsAgree(text_content)

C19_Witness ==
  /\ save_pc = "returned"
  /\ Len(arxiv_papers) = MaxItems
  /\ Len(ai_items) = 1
  /\ text_content.total = MaxItems + 1
  /\ html_content.total = MaxItems + 1

\* C20: after save_newsletter has returned, both documents are stored, in
\* either run location (files when local, bucket objects when on_aws), each
\* under the file name returned for it.
StoredAs(file, doc) ==
  \E f \in storage :
    /\ f.place = (IF runs = "on_aws" THEN "s3" ELSE "file")
    /\ f.key[2] = file[2]
    /\ f.body = doc

C20_BothDocumentsStored ==
  save_pc = "returned" =>
    /\ StoredAs(saved_files[1], html_content)
    /\ StoredAs(saved_files[2], text_content)

\* C26: GenerateNewsletterHeader.run calls the header agent exactly when a
\* collection is non-empty; with both empty it calls no agent and stores the
\* fixed "Content Search Issues" header; the prompt of a call lists every
\* title of both collections and has a failure note exactly when a failure
\* flag is true.
HeaderRunStep == pc = "GenerateNewsletterHeader" /\ pc' # pc

HasContent == arxiv_papers # <<>> \/ ai_items # <<>>

ListsTitles(p, items) == \A i \in 1..Len(items) : Contains(p, items[i])

HasNote(p) ==
  \E i \in 1..Len(p) :
    p[i] \in {"Note: Both content searches had technical issues, generating header for available content.",
              "Note: ArXiv search had technical issues, focusing on AI items.",
              "Note: AI items search had technical issues, focusing on research papers."}

HeaderRunCalls ==
  HeaderRunStep =>
    /\ (calls'["header"] = calls["header"] + 1) <=> HasContent
    /\ (pc' = "header_await") <=> HasContent
    /\ ~HasContent =>
         /\ calls' = calls
         /\ header' = <<ContentIssuesHeader>>
         /\ header'[1].title = "AI Agent Newsletter: Content Search Issues"
    /\ HasContent =>
         /\ ListsTitles(prompt', arxiv_papers)
         /\ ListsTitles(prompt', ai_items)
         /\ HasNote(prompt') <=> (arxiv_failed \/ ai_items_failed)

C26_HeaderAgentIffContent == [][HeaderRunCalls]_vars

C26_Witness ==
  /\ pc = "header_await"
  /\ arxiv_failed /\ ~ai_items_failed
  /\ arxiv_papers = <<>>
  /\ Len(ai_items) = MaxItems
  /\ ListsTitles(prompt, ai_items)
  /\ Contains(prompt, "Note: ArXiv search had technical issues, focusing on AI items.")

\* C27: each collection is always empty or exactly its agent's response, in
\* order; when the run has ended, a branch not flagged as failed holds its
\* agent's full response, and a branch flagged as failed raised in its agent
\* call or was flagged by the overall timeout.
RunEnded == pc \in {"End", "returned", "exit"}

CollectionIsResponse(items, a) == items = <<>> \/ (a.kind = "return" /\ items = a.output)

BranchOutcome(items, failed, a) ==
  /\ ~failed => (a.kind = "return" /\ items = a.output)
  /\ failed => (a.kind = "raise" \/ OverallTimedOut)

C27_CollectionsAreResponses ==
  /\ CollectionIsResponse(arxiv_papers, arxiv_agent)
  /\ CollectionIsResponse(ai_items, ai_agent)
  /\ RunEnded =>
       /\ BranchOutcome(arxiv_papers, arxiv_failed, arxiv_agent)
       /\ BranchOutcome(ai_items, ai_items_failed, ai_agent)

C27_Witness ==
  /\ pc = "End"
  /\ ~arxiv_failed /\ Len(arxiv_papers) = MaxItems
  /\ ai_items_failed /\ ai_agent.kind = "raise" /\ ai_items = <<>>
  /\ ~OverallTimedOut

\* C28: in a run of run_coordination_workflow the CheckBothCompleted step
\* finds both completion flags true and returns GenerateNewsletterHeader;
\* WaitForCompletion is never entered.
CheckStepToHeader ==
  pc = "CheckBothCompleted" => (pc' = "GenerateNewsletterHeader" /\ BothCompleted)

C28_WaitNeverEntered ==
  /\ [](pc # "WaitForCompletion")
  /\ [](pc = "CheckBothCompleted" => BothCompleted)
  /\ [][CheckStepToHeader]_vars

C28_Witness ==
  /\ pc = "GenerateNewsletterHeader"
  /\ OverallTimedOut
  /\ arxiv_pc = "done" /\ arxiv_agent.kind = "raise"

\* C29: whatever the search agents do (return, raise, hang), start_searches
\* returns a CheckBothCompleted node, the graph is run from it, and the
\* result is never the "Error in parallel execution" End.
DispatchRunsGraph == pc = "dispatch" => pc' = "CheckBothCompleted"

C29_NoParallelExecutionError ==
  /\ [](SearchesReturned => next_node = "CheckBothCompleted")
  /\ [](result.output # <<"Error in parallel execution">>)
  /\ [][DispatchRunsGraph]_vars

C29_Witness ==
  /\ pc = "returned"
  /\ arxiv_agent.kind = "raise" /\ ai_agent.kind = "raise"
  /\ arxiv_agent.exc # ai_agent.exc
  /\ next_node = "CheckBothCompleted"

\* C24: get_subscribers leaves out exactly the rows whose first column is
\* empty or has no "@"; every other row appears once, in file order, with its
\* trimmed email and with the second column as name when there is a
\* non-empty one, else the part of the email before "@".
Positions(str, c) == {i \in 1..Len(str) : str[i] = c}

\* the k-th piece of str between occurrences of c, by position
Piece(str, c, k) ==
  LET P == Positions(str, c)
      Before(p) == Cardinality({q \in P : q < p})
      from == IF k = 1 THEN 1 ELSE (CHOOSE p \in P : Before(p) = k - 2) + 1
      to == IF k = Cardinality(P) + 1 THEN Len(str)
            ELSE (CHOOSE p \in P : Before(p) = k - 1) - 1
  IN  SubSeq(str, from, to)

Pieces(str, c) == [k \in 1..(Cardinality(Positions(str, c)) + 1) |-> Piece(str, c, k)]

Trimmed(str) ==
  LET N == {i \in 1..Len(str) : str[i] \notin {" ", "\n"}}
  IN  IF N = {} THEN <<>>
      ELSE SubSeq(str, CHOOSE i \in N : \A j \in N : i <= j,
                       CHOOSE i \in N : \A j \in N : j <= i)

FirstColumn(row) == Trimmed(Pieces(row, ",")[1])

SecondColumn(row) ==
  IF Len(Pieces(row, ",")) >= 2 THEN Trimmed(Pieces(row, ",")[2]) ELSE <<>>

RowExcluded(row) == FirstColumn(row) = <<>> \/ Positions(FirstColumn(row), "@") = {}

BeforeAt(email) ==
  SubSeq(email, 1, (CHOOSE p \in Positions(email, "@") :
                      \A q \in Positions(email, "@") : p <= q) - 1)

RowSubscriber(row) ==
  [email |-> FirstColumn(row),
   name |-> IF SecondColumn(row) # <<>> THEN SecondColumn(row)
            ELSE BeforeAt(FirstColumn(row))]

RowKept(row) == ~RowExcluded(row)

KeptRows(body) == SelectSeq(Pieces(body, "\n"), RowKept)

C24_SubscribersAreValidRows ==
  sender_pc = "parsed" =>
    /\ Len(subscribers) = Len(KeptRows(subscribers_csv))
    /\ \A i \in 1..Len(subscribers) :
         subscribers[i] = RowSubscriber(KeptRows(subscribers_csv)[i])

C24_Witness ==
  /\ sender_pc = "parsed"
  /\ subscribers_csv = <<"a", "@", "\n", "b", "a">>
  /\ subscribers = <<[email |-> <<"a", "@">>, name |-> <<"a">>]>>

\* C21: every mail the approval handler sends goes to the admin address, and
\* every mail the sender handler sends for a newsletter comes after an
\* accepted approval mail for that newsletter, whose link the request invoked.
CallsBy(h) == {j \in 1..Len(ses_calls) : ses_calls[j].by = h}

ApprovedBefore(j) ==
  \E i \in CallsBy("approval") :
    /\ i < j
    /\ ses_calls[i].ok
    /\ ses_calls[i].newsletter = ses_calls[j].newsletter

SentReported ==
  sender_pc = "returned" /\ sender_response.message = "Newsletter sent successfully"

C22_EverySubscriberMailed ==
  SentReported =>
    /\ subscribers = GetSubscribers(subscribers_csv)
    /\ \A i \in 1..Len(subscribers) :
         \E j \in CallsBy("sender") :
           /\ ses_calls[j].to = subscribers[i].email
           /\ ses_calls[j].html = sender_html[1]
    /\ Cardinality(CallsBy("sender")) = Len(subscribers)
    /\ sender_response.count = Cardinality({j \in CallsBy("sender") : ses_calls[j].ok})

\* C23: when send_to_subscribers has gone through the list, it has tried
\* every subscriber once, in list order, whichever addresses the mail service
\* rejected, and it has counted exactly the subscribers not rejected.
SendingDone == sender_pc = "sending" /\ send_i > Len(subscribers)

SenderCalls == SelectSeq(ses_calls, LAMBDA c : c.by = "sender")

C23_RejectionDoesNotBlock ==
  SendingDone =>
    /\ Len(SenderCalls) = Len(subscribers)
    /\ \A i \in 1..Len(SenderCalls) : SenderCalls[i].to = subscribers[i].email
    /\ success_count =
         Cardinality({i \in 1..Len(subscribers) : subscribers[i].email \notin rejects})

\* C30: a request without query parameters or without a 'newsletter'
\* parameter is answered "Missing newsletter parameter" with nothing fetched
\* and no mail sent; an empty subscriber list is answered "No subscribers
\* found" with no mail sent.
SenderStep == sender_pc' # sender_pc

NoNewsletterParameter(q) == ~q.given \/ "newsletter" \notin q.names

MissingParameterStep ==
  (sender_pc = "idle" /\ SenderStep /\ NoNewsletterParameter(sender_event')) =>
    /\ sender_response'.message = "Error: Missing newsletter parameter"
    /\ sender_pc' = "returned"
    /\ UNCHANGED <<s3_gets, ses_calls, subscribers>>

NoSubscribersStep ==
  (sender_pc = "parsed" /\ SenderStep /\ subscribers = <<>>) =>
    /\ sender_response'.message = "No subscribers found"
    /\ sender_pc' = "returned"
    /\ UNCHANGED ses_calls

C30_MissingParameterOrNoSubscribers ==
  /\ [][MissingParameterStep]_vars
  /\ [][NoSubscribersStep]_vars
  /\ []((sender_pc = "returned" /\ NoNewsletterParameter(sender_event)) =>
          /\ \A j \in 1..Len(s3_gets) : s3_gets[j].by # "sender"
          /\ CallsBy("sender") = {})
  /\ []((sender_pc = "returned" /\ sender_response.message = "No subscribers found") =>
          CallsBy("sender") = {})

C30_Witness ==
  /\ sender_pc = "returned"
  /\ sender_event.given /\ sender_event.names = {"other"}
  /\ sender_response.message = "Error: Missing newsletter parameter"
  /\ storage # {}
  /\ subscribers_csv # <<>>
  /\ s3_gets = <<>>

\* C25 as stated: a missing required setting ends the process with status 1
\* before any agent exists or is called, in every mode, and nothing else
\* ends the process with a failure status.
SettingsMissing == \E v \in {"TAVILY_API_KEY", "GEMINI_API_KEY"} : v \notin environ

NoAgentWork ==
  /\ agent_vars = <<Idle, Idle, Idle>>
  /\ calls = [a \in {"arxiv", "ai", "header"} |-> 0]

AbortsBeforeAgents ==
  SettingsMissing =>
    /\ pc \in {"main", "exit"}
    /\ NoAgentWork
    /\ pc = "exit" => exit_status = <<1>>

C25_OnlyMissingSettingsFatal ==
  /\ AbortsBeforeAgents
  /\ exit_status = <<1>> => SettingsMissing

\* C25 amended: a missing required setting ends the process with status 1
\* before any agent exists or is called, in every mode; the process ends
\* with a failure status otherwise only when an exception leaves main
\* (creating ./data or building the agents failed), never after an agent was
\* called.
C25_FatalOnlyBeforeAgentWork ==
  /\ AbortsBeforeAgents
  /\ exit_status = <<1>> => (SettingsMissing \/ faults # {})
  /\ exit_status = <<1>> => NoAgentWork
  /\ (pc = "exit" /\ ~SettingsMissing /\ faults = {}) => exit_status = <<0>>

C25_Witness ==
  /\ pc = "exit"
  /\ exit_status = <<1>>
  /\ environ = {"TAVILY_API_KEY"}
  /\ command = "test"
  /\ faults = {}

\* C31: the approval handler fetches the event's records in order and makes
\* one send_email call, to the admin address and with that record's
\* document, per record it fetched and could mail; when a fetch or a send
\* fails it returns status 500 having touched no later record, and the
\* mails of the earlier records remain sent; it returns status 200 only
\* when a mail was sent for every record.
ApprovalGets == SelectSeq(s3_gets, LAMBDA g : g.by = "approval")

ApprovalMails == SelectSeq(ses_calls, LAMBDA c : c.by = "approval")

Sent(mails) == {j \in 1..Len(mails) : mails[j].ok}

RecordsInOrder ==
  /\ Len(ApprovalGets) <= Len(approval_event)
  /\ \A i \in 1..Len(ApprovalGets) : EventKey(ApprovalGets[i].key) = approval_event[i]
  /\ Len(ApprovalMails) <= Len(ApprovalGets)
  /\ \A j \in 1..Len(ApprovalMails) :
       /\ ApprovalMails[j].to = AdminEmail
       /\ ApprovalMails[j].newsletter = ApprovalGets[j].key
       /\ HtmlObject(ApprovalGets[j].key) \in storage
       /\ ApprovalMails[j].html = HtmlObject(ApprovalGets[j].key).body

EveryRecordMailed ==
  /\ Len(ApprovalMails) = Len(approval_event)
  /\ Sent(ApprovalMails) = 1..Len(approval_event)

\* the record at which the handler stopped is the first one that failed
StoppedAtFailure ==
  LET m == Len(ApprovalGets)
  IN  /\ m >= 1
      /\ Sent(ApprovalMails) = 1..(m - 1)
      /\ Len(ApprovalMails) \in {m - 1, m}

ApprovalOutcome ==
  approval_pc = "returned" =>
    /\ approval_response.statusCode \in {200, 500}
    /\ approval_response.statusCode = 200 <=> EveryRecordMailed
    /\ approval_response.statusCode = 500 => StoppedAtFailure

\* mails are only ever added, and a returned handler touches nothing more
MailsKept ==
  /\ Len(ses_calls') \in {Len(ses_calls), Len(ses_calls) + 1}
  /\ SubSeq(ses_calls', 1, Len(ses_calls)) = ses_calls
  /\ approval_pc = "returned" =>
       (approval_pc' = "returned" /\ ApprovalGets' = ApprovalGets /\ ApprovalMails' = ApprovalMails)

C31_ApprovalPerRecord ==
  /\ [](RecordsInOrder /\ ApprovalOutcome)
  /\ [][MailsKept]_vars

C31_Witness ==
  /\ approval_pc = "returned"
  /\ approval_response.statusCode = 500
  /\ Len(approval_event) = 2
  /\ Len(ApprovalGets) = 2
  /\ Len(ApprovalMails) = 1
  /\ ApprovalMails[1].ok

\* C32: when the sender handler is invoked with the 'newsletter' parameter
\* of the link of an approval mail, the key under which it fetches the
\* document is the key the approval handler fetched and embedded, whatever
\* characters the key has.
SenderGets == SelectSeq(s3_gets, LAMBDA g : g.by = "sender")

LinkMails == {j \in 1..Len(ses_calls) : ses_calls[j].link # <<>>}

InvokedWithLinkOf(j) ==
  /\ sender_event.given
  /\ "newsletter" \in sender_event.names
  /\ sender_event.newsletter = ses_calls[j].link[1].newsletter
  /\ SenderGets # <<>>

C32_LinkRoundTripsKey ==
  \A j \in LinkMails :
    InvokedWithLinkOf(j) =>
      /\ SenderGets[1].key = ses_calls[j].newsletter
      /\ sender_html = <<ses_calls[j].html>>

C32_Witness ==
  /\ sender_pc = "returned"
  /\ Len(ses_calls) = 1
  /\ ses_calls[1].newsletter = <<"%", "2", "5">>
  /\ InvokedWithLinkOf(1)
  /\ sender_event.newsletter = <<"%", "2", "5", "2", "5">>
  /\ SenderGets[1].key = <<"%", "2", "5">>
  /\ sender_response.message = "Newsletter sent successfully"

====
